---- MODULE Spec2Model ----
(***************************************************************************)
(* Model of the piv-agent "setup" command (cmd/piv-agent/setup.go): the    *)
(* provisioning of a PIV security key.  One invocation of SetupCmd.Run is  *)
(* a sequence of steps (pc); the device outlives the invocations, so a     *)
(* behaviour is a series of invocations against one device.                *)
(***************************************************************************)
EXTENDS Integers, Sequences, FiniteSets, TLC

\* ---------------------------------------------------------------- bounds
\* Number of invocations of the command against the same device.
MaxRuns == 3

\* ------------------------------------------------------ program constants
MinPIN == 100000
MaxPIN == 99999999

\* Characters of terminal input and of PIN strings: the decimal digits, and
\* "x" for any byte that is not a decimal digit.
DigitChars == << "0", "1", "2", "3", "4", "5", "6", "7", "8", "9" >>
DigitValue ==
    [c \in {"0", "1", "2", "3", "4", "5", "6", "7", "8", "9"} |->
        CHOOSE v \in 0..9 : DigitChars[v + 1] = c]

\* Management keys: ZeroKey is the zero value of setup's "var mk [24]byte",
\* key 1 is piv.DefaultManagementKey, and the keys from 2 on are what
\* rand.Read produces: 24 random bytes, a value that is neither of the two
\* fixed ones nor the value of an earlier invocation.
ZeroKey == 0
DefaultManagementKey == 1
RandomKeys == (DefaultManagementKey + 1)..(DefaultManagementKey + MaxRuns)
RandomKey(n) == DefaultManagementKey + n
\* piv.DefaultPIN = "123456", piv.DefaultPUK = "12345678"
DefaultPIN == << "1", "2", "3", "4", "5", "6" >>
DefaultPUK == << "1", "2", "3", "4", "5", "6", "7", "8" >>

SlotAuthentication == "authentication"
SlotSignature == "signature"
SlotCardAuthentication == "card-authentication"
SlotKeyManagement == "key-management"
DeviceSlots ==
    {SlotAuthentication, SlotSignature, SlotCardAuthentication, SlotKeyManagement}

TouchPolicyNever == "TouchPolicyNever"
TouchPolicyAlways == "TouchPolicyAlways"
TouchPolicyCached == "TouchPolicyCached"

allKeySpec ==
    << [slot |-> SlotAuthentication, touchPolicy |-> TouchPolicyCached],
       [slot |-> SlotSignature, touchPolicy |-> TouchPolicyAlways],
       [slot |-> SlotCardAuthentication, touchPolicy |-> TouchPolicyNever] >>

touchStringMap ==
    [p \in {TouchPolicyNever, TouchPolicyAlways, TouchPolicyCached} |->
        CASE p = TouchPolicyNever -> "never"
          [] p = TouchPolicyAlways -> "always"
          [] p = TouchPolicyCached -> "cached"]

\* Variant of the table selection: the flag is not looked at.
KeySpec_AlwaysAll(allTouchPolicies) == allKeySpec

\* keySpec of setup: the one-entry table, or allKeySpec.
KeySpec(allTouchPolicies) ==
    IF allTouchPolicies
    THEN allKeySpec
    ELSE << [slot |-> SlotAuthentication, touchPolicy |-> TouchPolicyCached] >>

\* ------------------------------------------------------------ conversions
RECURSIVE DigitsValue(_, _)
DigitsValue(s, acc) ==
    IF s = << >> THEN [val |-> acc, err |-> FALSE]
    ELSE IF Head(s) \notin DOMAIN DigitValue THEN [val |-> 0, err |-> TRUE]
    ELSE DigitsValue(Tail(s), acc * 10 + DigitValue[Head(s)])

\* strconv.ParseUint(s, 10, 64): an error for the empty string and for any
\* byte that is not a decimal digit; leading zeros are read as digits.
ParseUint(s) ==
    IF s = << >> THEN [val |-> 0, err |-> TRUE] ELSE DigitsValue(s, 0)

RECURSIVE FormatUint(_)
\* strconv.FormatUint(n, 10): the shortest decimal text of n.
FormatUint(n) ==
    IF n < 10 THEN << DigitChars[n + 1] >>
    ELSE Append(FormatUint(n \div 10), DigitChars[(n % 10) + 1])

\* Variants of the range check: left out, and with the lower bound excluded.
PINOutOfRange_Skipped(pin) == FALSE
PINOutOfRange_LowerExcluded(pin) == pin <= MinPIN \/ pin > MaxPIN

\* The range check of Run, as the code writes it.
PINOutOfRange(pin) == pin < MinPIN \/ pin > MaxPIN

\* ------------------------------------------------------------- the device
\* A slot holds at most one key and one certificate.  keyGen and certGen
\* say which invocation generated the key (0: it was on the device before
\* the first invocation); the certificate of a slot wraps the key certGen.
EmptySlot ==
    [hasKey |-> FALSE, keyGen |-> 0, policy |-> "none",
     hasCert |-> FALSE, certGen |-> 0]

\* Factory state: default secrets, no stored metadata, all slots empty.
FactoryDevice ==
    [ mgmt |-> DefaultManagementKey,
      metadata |-> {},
      pin |-> DefaultPIN,
      puk |-> DefaultPUK,
      slots |-> [s \in DeviceSlots |-> EmptySlot] ]

\* What the device does with each command of the PIV interface the program
\* uses.  A command that needs the management key, the PIN or the PUK is
\* refused when the value presented is not the device's current one.
DevCertificate(d, slot) == IF d.slots[slot].hasCert THEN "ok" ELSE "notfound"

DevReset(d) == FactoryDevice

\* The arguments of a call, for the record of the invocation: the
\* management key presented (ZeroKey: none), the management key installed or
\* stored, the PIN or PUK presented and the new one.
Args(key, newKey, old, new) ==
    [key |-> key, newKey |-> newKey, old |-> old, new |-> new]
NoArgs == Args(ZeroKey, ZeroKey, << >>, << >>)

DevSetManagementKey(d, oldKey, newKey) ==
    [ok |-> d.mgmt = oldKey, dev |-> [d EXCEPT !.mgmt = newKey],
     args |-> Args(oldKey, newKey, << >>, << >>)]

DevSetMetadata(d, key, m) ==
    [ok |-> d.mgmt = key, dev |-> [d EXCEPT !.metadata = {m}],
     args |-> Args(key, m, << >>, << >>)]

DevSetPIN(d, oldPIN, newPIN) ==
    [ok |-> d.pin = oldPIN, dev |-> [d EXCEPT !.pin = newPIN],
     args |-> Args(ZeroKey, ZeroKey, oldPIN, newPIN)]

DevSetPUK(d, oldPUK, newPUK) ==
    [ok |-> d.puk = oldPUK, dev |-> [d EXCEPT !.puk = newPUK],
     args |-> Args(ZeroKey, ZeroKey, oldPUK, newPUK)]

\* The new key replaces the key of the slot; the slot's certificate object
\* is left as it is.
DevGenerateKey(d, key, slot, touchPolicy, gen) ==
    [ok |-> d.mgmt = key,
     dev |-> [d EXCEPT !.slots[slot].hasKey = TRUE,
                       !.slots[slot].keyGen = gen,
                       !.slots[slot].policy = touchPolicy],
     args |-> Args(key, ZeroKey, << >>, << >>)]

DevSetCertificate(d, key, slot, pubGen) ==
    [ok |-> d.mgmt = key,
     dev |-> [d EXCEPT !.slots[slot].hasCert = TRUE,
                       !.slots[slot].certGen = pubGen],
     args |-> Args(key, ZeroKey, << >>, << >>)]

\* ----------------------------------------------------------------- inputs
\* Values of the --pin flag; 0 is the flag left out.
FlagPINs == {0, 99999, 100000, 99999999, 100000000}

\* Lines typed at the prompts of interactivePIN.
RawEntries ==
    { << >>,
      << "9", "9", "9", "9", "9" >>,
      << "1", "0", "0", "0", "0", "0" >>,
      << "0", "1", "0", "0", "0", "0", "0" >>,
      << "9", "9", "9", "9", "9", "9", "9", "9" >>,
      << "1", "0", "0", "0", "0", "0", "0", "0", "0" >>,
      << "1", "2", "x", "4", "5", "6" >> }

\* Results of terminal.ReadPassword.
ReadResults ==
    {[bytes |-> b, err |-> FALSE] : b \in RawEntries}
        \cup {[bytes |-> << >>, err |-> TRUE]}

\* A device that another tool has used: factory secrets, a key and a
\* certificate in the signature slot, nothing in the authentication slot.
ForeignDevice ==
    [FactoryDevice EXCEPT
        !.slots[SlotSignature] =
            [hasKey |-> TRUE, keyGen |-> 0, policy |-> TouchPolicyNever,
             hasCert |-> TRUE, certGen |-> 0]]

InitialDevices == {FactoryDevice, ForeignDevice}

Commands ==
    [PIN : FlagPINs, ResetSecurityKey : BOOLEAN, AllTouchPolicies : BOOLEAN]

\* ------------------------------------------------------------------ state
VARIABLES
    device,       \* the security key; it outlives the invocations
    run,          \* number of the current invocation, from 1
    cmd,          \* the SetupCmd of the current invocation
    flagPIN,      \* cmd.PIN as the flag set it, before Run overwrites it
    reads,        \* the results of the ReadPassword calls of interactivePIN
    pc,           \* position of the invocation in Run / setup / configureSlot
    err,          \* the error Run returns; "" while there is none
    handle,       \* the *piv.YubiKey of Run: "none", "open" or "closed"
    mk,           \* setup's local mk
    idx,          \* index in keySpec of the slot being configured
    calls,        \* the device calls of this invocation, in order
    output,       \* the key lines printed by this invocation, in order
    startDevice,  \* device when this invocation started
    faulted,      \* a device, terminal or host-library call failed by itself
    prevErr       \* err of the previous invocation

vars ==
    << device, run, cmd, flagPIN, reads, pc, err, handle, mk, idx, calls,
       output, startDevice, faulted, prevErr >>

\* names of the errors Run returns
ErrLogger == "couldn't init logger"
ErrRead == "couldn't read PIN/PUK"
ErrChars == "invalid characters"
ErrNotEqual == "PIN/PUK entries not equal"
ErrInvalidPIN == "invalid PIN, must be 6-8 digits"
ErrSecurityKey == "couldn't get security key"
ErrAlreadySetUp == "security key already set up and --reset-security-key not specified"
ErrReset == "couldn't reset security key"
ErrCertificate == "couldn't get certificate"
ErrRandom == "couldn't get random bytes"
ErrSetManagementKey == "couldn't set management key"
ErrStoreManagementKey == "couldn't store management key"
ErrSetPIN == "couldn't set PIN"
ErrSetPUK == "couldn't set PUK"
ErrGenerateKey == "couldn't configure slot: couldn't generate key"
ErrParentKey == "couldn't configure slot: couldn't generate parent key"
ErrSerial == "couldn't configure slot: couldn't generate serial"
ErrCreateCertificate == "couldn't configure slot: couldn't create certificate"
ErrParseCertificate == "couldn't configure slot: couldn't parse certificate"
ErrSetCertificate == "couldn't configure slot: couldn't set certificate"
ErrSSHPublicKey == "couldn't configure slot: couldn't get SSH public key"

Init ==
    /\ device \in InitialDevices
    /\ run = 1
    /\ cmd \in Commands
    /\ flagPIN = cmd.PIN
    /\ reads = << >>
    /\ pc = "Run"
    /\ err = ""
    /\ handle = "none"
    /\ mk = ZeroKey
    /\ idx = 0
    /\ calls = << >>
    /\ output = << >>
    /\ startDevice = device
    /\ faulted = FALSE
    /\ prevErr = ""

\* Run returns the error e.
Return(e) == pc' = "failed" /\ err' = e

\* One device call is recorded, with its arguments.
CallArgs(op, slot, res, args) ==
    calls' = Append(calls,
                [op |-> op, slot |-> slot, res |-> res, args |-> args])

\* A call without key, PIN or PUK arguments.
Call(op, slot, res) == CallArgs(op, slot, res, NoArgs)

\* Variant of the error check: the error is dropped and the run goes on.
OrReturn_Continue(ok, next, e) == pc' = next /\ err' = err

\* Variant of the error check: the failed step is tried again.
OrReturn_Retry(ok, next, e) ==
    IF ok THEN pc' = next /\ err' = err ELSE pc' = pc /\ err' = err

\* The "if err != nil { return ... }" after a call: go on to the next step,
\* or return the error e.
OrReturn(ok, next, e) ==
    IF ok THEN pc' = next /\ err' = err ELSE Return(e)

\* ------------------------------------------------------------ SetupCmd.Run
\* zap.NewDevelopment, then the choice between the flag and the prompt.
NewLogger ==
    /\ pc = "Run"
    /\ \E ok \in BOOLEAN :
        /\ OrReturn(ok, IF cmd.PIN = 0 THEN "interactivePIN" ELSE "checkPIN",
                    ErrLogger)
        /\ faulted' = (faulted \/ ~ok)
    /\ UNCHANGED << device, run, cmd, flagPIN, reads, handle, mk, idx, calls,
                    output, startDevice, prevErr >>

\* interactivePIN: the value and the error it returns for the two reads
\* r1 and r2 (r2 is read only when r1 was read and parsed).
InteractivePINResult(r1, r2) ==
    IF r1.err THEN [pin |-> 0, err |-> ErrRead, reads |-> << r1 >>]
    ELSE IF ParseUint(r1.bytes).err
         THEN [pin |-> 0, err |-> ErrChars, reads |-> << r1 >>]
    ELSE IF r2.err THEN [pin |-> 0, err |-> ErrRead, reads |-> << r1, r2 >>]
    ELSE IF r2.bytes # r1.bytes
         THEN [pin |-> 0, err |-> ErrNotEqual, reads |-> << r1, r2 >>]
    ELSE [pin |-> ParseUint(r1.bytes).val, err |-> "", reads |-> << r1, r2 >>]

\* The second ReadPassword happens only after a first entry that parsed.
SecondReads(r1) ==
    IF r1.err \/ ParseUint(r1.bytes).err THEN {r1} ELSE ReadResults

InteractivePIN ==
    /\ pc = "interactivePIN"
    /\ \E r1 \in ReadResults :
       \E r2 \in SecondReads(r1) :
        LET res == InteractivePINResult(r1, r2) IN
        /\ reads' = res.reads
        /\ cmd' = [cmd EXCEPT !.PIN = res.pin]
        /\ OrReturn(res.err = "", "checkPIN", res.err)
        /\ faulted' = (faulted \/ res.err = ErrRead)
    /\ UNCHANGED << device, run, flagPIN, handle, mk, idx, calls, output,
                    startDevice, prevErr >>

\* Variant of the range check of Run: a secret out of range is asked for
\* again at the prompt.
CheckPIN_AsksAgain ==
    /\ pc = "checkPIN"
    /\ pc' = IF PINOutOfRange(cmd.PIN) THEN "interactivePIN" ELSE "getSecurityKey"
    /\ UNCHANGED << device, run, cmd, flagPIN, reads, err, handle, mk, idx,
                    calls, output, startDevice, faulted, prevErr >>

CheckPIN ==
    /\ pc = "checkPIN"
    /\ OrReturn(~PINOutOfRange(cmd.PIN), "getSecurityKey", ErrInvalidPIN)
    /\ UNCHANGED << device, run, cmd, flagPIN, reads, handle, mk, idx, calls,
                    output, startDevice, faulted, prevErr >>

\* getSecurityKey(cmd.Card): the handle, or an error.
GetSecurityKey ==
    /\ pc = "getSecurityKey"
    /\ \E ok \in BOOLEAN :
        /\ OrReturn(ok, "Certificate", ErrSecurityKey)
        /\ handle' = IF ok THEN "open" ELSE handle
        /\ faulted' = (faulted \/ ~ok)
    /\ UNCHANGED << device, run, cmd, flagPIN, reads, mk, idx, calls, output,
                    startDevice, prevErr >>

\* ---------------------------------------------------------- SetupCmd.setup
\* Variants of the guard: one resets whatever --reset-security-key says, one
\* resets on the flag alone, certificate or not.
GuardDecision_IgnoreFlag(res, resetSecurityKey) ==
    IF res = "ok" THEN [next |-> "Reset", err |-> ""]
    ELSE IF res # "notfound"
         THEN [next |-> "failed", err |-> ErrCertificate]
         ELSE [next |-> "randRead", err |-> ""]
GuardDecision_ResetOnFlag(res, resetSecurityKey) ==
    IF res \in {"ok", "notfound"}
    THEN IF resetSecurityKey
         THEN [next |-> "Reset", err |-> ""]
         ELSE IF res = "ok"
              THEN [next |-> "failed", err |-> ErrAlreadySetUp]
              ELSE [next |-> "randRead", err |-> ""]
    ELSE [next |-> "failed", err |-> ErrCertificate]

\* Two more variants of the guard: one goes on to the rotation without the
\* reset, one takes every failed query for "not found".
GuardDecision_SkipsReset(res, resetSecurityKey) ==
    IF res = "ok"
    THEN IF ~resetSecurityKey
         THEN [next |-> "failed", err |-> ErrAlreadySetUp]
         ELSE [next |-> "randRead", err |-> ""]
    ELSE IF res # "notfound"
         THEN [next |-> "failed", err |-> ErrCertificate]
         ELSE [next |-> "randRead", err |-> ""]
GuardDecision_ErrorAsNotFound(res, resetSecurityKey) ==
    IF res = "ok"
    THEN IF ~resetSecurityKey
         THEN [next |-> "failed", err |-> ErrAlreadySetUp]
         ELSE [next |-> "Reset", err |-> ""]
    ELSE [next |-> "randRead", err |-> ""]

\* What setup does with the result of k.Certificate(piv.SlotAuthentication):
\* the next step, or the error returned.
GuardDecision(res, resetSecurityKey) ==
    IF res = "ok"
    THEN IF ~resetSecurityKey
         THEN [next |-> "failed", err |-> ErrAlreadySetUp]
         ELSE [next |-> "Reset", err |-> ""]
    ELSE IF res # "notfound"
         THEN [next |-> "failed", err |-> ErrCertificate]
         ELSE [next |-> "randRead", err |-> ""]

Certificate ==
    /\ pc = "Certificate"
    /\ \E fault \in BOOLEAN :
        LET res == IF fault THEN "error"
                   ELSE DevCertificate(device, SlotAuthentication)
            g == GuardDecision(res, cmd.ResetSecurityKey)
        IN  /\ Call("Certificate", SlotAuthentication, res)
            /\ OrReturn(g.next # "failed", g.next, g.err)
            /\ faulted' = (faulted \/ fault)
    /\ UNCHANGED << device, run, cmd, flagPIN, reads, handle, mk, idx, output,
                    startDevice, prevErr >>

\* Variant of Reset: after the reset the run goes straight to
\* SetManagementKey, with mk as declared.
Reset_SkipsRandRead ==
    /\ pc = "Reset"
    /\ \E fault \in BOOLEAN :
        /\ Call("Reset", "", IF fault THEN "error" ELSE "ok")
        /\ device' = IF fault THEN device ELSE DevReset(device)
        /\ OrReturn(~fault, "SetManagementKey", ErrReset)
        /\ faulted' = (faulted \/ fault)
    /\ UNCHANGED << run, cmd, flagPIN, reads, handle, mk, idx, output,
                    startDevice, prevErr >>

Reset ==
    /\ pc = "Reset"
    /\ \E fault \in BOOLEAN :
        /\ Call("Reset", "", IF fault THEN "error" ELSE "ok")
        /\ device' = IF fault THEN device ELSE DevReset(device)
        /\ OrReturn(~fault, "randRead", ErrReset)
        /\ faulted' = (faulted \/ fault)
    /\ UNCHANGED << run, cmd, flagPIN, reads, handle, mk, idx, output,
                    startDevice, prevErr >>

\* rand.Read(mk[:])
RandRead ==
    /\ pc = "randRead"
    /\ \E ok \in BOOLEAN :
        /\ mk' = IF ok THEN RandomKey(run) ELSE mk
        /\ OrReturn(ok, "SetManagementKey", ErrRandom)
        /\ faulted' = (faulted \/ ~ok)
    /\ UNCHANGED << device, run, cmd, flagPIN, reads, handle, idx, calls,
                    output, startDevice, prevErr >>

\* Variant of a device call: a failed call puts the device back as it was
\* when the invocation started.
DeviceCall_Rollback(op, slot, r, fault, next, e) ==
    LET ok == ~fault /\ r.ok IN
    /\ CallArgs(op, slot, IF ok THEN "ok" ELSE "error", r.args)
    /\ device' = IF ok THEN r.dev ELSE startDevice
    /\ IF ok THEN pc' = next /\ err' = err ELSE Return(e)
    /\ faulted' = (faulted \/ fault)

\* A call that changes the device: r is what the device does with it when it
\* arrives, fault is a failure of the exchange itself.
DeviceCall(op, slot, r, fault, next, e) ==
    LET ok == ~fault /\ r.ok IN
    /\ CallArgs(op, slot, IF ok THEN "ok" ELSE "error", r.args)
    /\ device' = IF ok THEN r.dev ELSE device
    /\ OrReturn(ok, next, e)
    /\ faulted' = (faulted \/ fault)

SetManagementKey ==
    /\ pc = "SetManagementKey"
    /\ \E fault \in BOOLEAN :
        DeviceCall("SetManagementKey", "",
                   DevSetManagementKey(device, DefaultManagementKey, mk),
                   fault, "SetMetadata", ErrSetManagementKey)
    /\ UNCHANGED << run, cmd, flagPIN, reads, handle, mk, idx, output,
                    startDevice, prevErr >>

\* Variant of SetMetadata: the default key is what gets stored.
SetMetadata_StoresDefaultKey ==
    /\ pc = "SetMetadata"
    /\ \E fault \in BOOLEAN :
        DeviceCall("SetMetadata", "",
                   DevSetMetadata(device, mk, DefaultManagementKey),
                   fault, "SetPIN", ErrStoreManagementKey)
    /\ UNCHANGED << run, cmd, flagPIN, reads, handle, mk, idx, output,
                    startDevice, prevErr >>

SetMetadata ==
    /\ pc = "SetMetadata"
    /\ \E fault \in BOOLEAN :
        DeviceCall("SetMetadata", "", DevSetMetadata(device, mk, mk),
                   fault, "SetPIN", ErrStoreManagementKey)
    /\ UNCHANGED << run, cmd, flagPIN, reads, handle, mk, idx, output,
                    startDevice, prevErr >>

SetPIN ==
    /\ pc = "SetPIN"
    /\ \E fault \in BOOLEAN :
        DeviceCall("SetPIN", "",
                   DevSetPIN(device, DefaultPIN, FormatUint(cmd.PIN)),
                   fault, "SetPUK", ErrSetPIN)
    /\ UNCHANGED << run, cmd, flagPIN, reads, handle, mk, idx, output,
                    startDevice, prevErr >>

\* Variant of SetPUK: the default PIN is presented instead of the default PUK.
SetPUK_PresentsDefaultPIN ==
    /\ pc = "SetPUK"
    /\ \E fault \in BOOLEAN :
        /\ DeviceCall("SetPUK", "",
                      DevSetPUK(device, DefaultPIN, FormatUint(cmd.PIN)),
                      fault, "GenerateKey", ErrSetPUK)
        /\ idx' = 1
    /\ UNCHANGED << run, cmd, flagPIN, reads, handle, mk, output,
                    startDevice, prevErr >>

\* After SetPUK the loop over keySpec starts with its first entry.
SetPUK ==
    /\ pc = "SetPUK"
    /\ \E fault \in BOOLEAN :
        /\ DeviceCall("SetPUK", "",
                      DevSetPUK(device, DefaultPUK, FormatUint(cmd.PIN)),
                      fault, "GenerateKey", ErrSetPUK)
        /\ idx' = 1
    /\ UNCHANGED << run, cmd, flagPIN, reads, handle, mk, output,
                    startDevice, prevErr >>

\* ---------------------------------------------------- SetupCmd.configureSlot
\* The entry of keySpec the loop of setup is at.
CurrentSpec == KeySpec(cmd.AllTouchPolicies)[idx]

\* k.GenerateKey(mk, slot, ...): the key this invocation generates in a slot
\* is identified by the invocation's number.
GenerateKey ==
    /\ pc = "GenerateKey"
    /\ \E fault \in BOOLEAN :
        DeviceCall("GenerateKey", CurrentSpec.slot,
                   DevGenerateKey(device, mk, CurrentSpec.slot,
                                  CurrentSpec.touchPolicy, run),
                   fault, "createCertificate", ErrGenerateKey)
    /\ UNCHANGED << run, cmd, flagPIN, reads, handle, mk, idx, output,
                    startDevice, prevErr >>

\* The host-side steps between the two device calls: the parent key, the
\* serial number, x509.CreateCertificate and x509.ParseCertificate.
CreateCertificate ==
    /\ pc = "createCertificate"
    /\ \E e \in {"", ErrParentKey, ErrSerial, ErrCreateCertificate,
                 ErrParseCertificate} :
        /\ OrReturn(e = "", "SetCertificate", e)
        /\ faulted' = (faulted \/ e # "")
    /\ UNCHANGED << device, run, cmd, flagPIN, reads, handle, mk, idx, calls,
                    output, startDevice, prevErr >>

\* k.SetCertificate(mk, slot, cert): cert wraps the key just generated.
SetCertificate ==
    /\ pc = "SetCertificate"
    /\ \E fault \in BOOLEAN :
        DeviceCall("SetCertificate", CurrentSpec.slot,
                   DevSetCertificate(device, mk, CurrentSpec.slot, run),
                   fault, "printKey", ErrSetCertificate)
    /\ UNCHANGED << run, cmd, flagPIN, reads, handle, mk, idx, output,
                    startDevice, prevErr >>

\* Variant of the loop: it stops one entry early.
LoopNext_StopsEarly(i, n) == IF i < n - 1 THEN "GenerateKey" ELSE "done"

\* Where setup goes when configureSlot has returned nil for entry i of a
\* table of n entries: the next entry, or "return nil".
LoopNext(i, n) == IF i < n THEN "GenerateKey" ELSE "done"

\* ssh.NewPublicKey and the two Printf of configureSlot, then the return to
\* the loop of setup.
PrintKey ==
    /\ pc = "printKey"
    /\ \E ok \in BOOLEAN :
        LET n == Len(KeySpec(cmd.AllTouchPolicies))
            next == LoopNext(idx, n)
        IN  /\ OrReturn(ok, next, ErrSSHPublicKey)
            /\ output' = IF ok
                         THEN Append(output,
                                 [label |-> touchStringMap[CurrentSpec.touchPolicy],
                                  slot |-> CurrentSpec.slot,
                                  key |-> run])
                         ELSE output
            /\ idx' = IF ok /\ next = "GenerateKey" THEN idx + 1 ELSE idx
            /\ faulted' = (faulted \/ ~ok)
    /\ UNCHANGED << device, run, cmd, flagPIN, reads, handle, mk, calls,
                    startDevice, prevErr >>

\* ------------------------------------------------------- the next invocation
\* The command is run again, with any flags, on the device as it is.
Invoke ==
    /\ pc \in {"done", "failed"}
    /\ run < MaxRuns
    /\ run' = run + 1
    /\ cmd' \in Commands
    /\ flagPIN' = cmd'.PIN
    /\ reads' = << >>
    /\ pc' = "Run"
    /\ err' = ""
    /\ handle' = "none"
    /\ mk' = ZeroKey
    /\ idx' = 0
    /\ calls' = << >>
    /\ output' = << >>
    /\ startDevice' = device
    /\ faulted' = FALSE
    /\ prevErr' = err
    /\ UNCHANGED device

Next ==
    \/ NewLogger
    \/ InteractivePIN
    \/ CheckPIN
    \/ GetSecurityKey
    \/ Certificate
    \/ Reset
    \/ RandRead
    \/ SetManagementKey
    \/ SetMetadata
    \/ SetPIN
    \/ SetPUK
    \/ GenerateKey
    \/ CreateCertificate
    \/ SetCertificate
    \/ PrintKey
    \/ Invoke

Spec == Init /\ [][Next]_vars

\* The steps of one invocation.  Run is sequential code whose calls all
\* return: an invocation that can take a step takes one.  When the
\* command is run again is up to the operator.
RunStep ==
    \/ NewLogger
    \/ InteractivePIN
    \/ CheckPIN
    \/ GetSecurityKey
    \/ Certificate
    \/ Reset
    \/ RandRead
    \/ SetManagementKey
    \/ SetMetadata
    \/ SetPIN
    \/ SetPUK
    \/ GenerateKey
    \/ CreateCertificate
    \/ SetCertificate
    \/ PrintKey

LiveSpec == Init /\ [][Next]_vars /\ WF_vars(RunStep)

\* ----------------------------------------------------------------- claims
\* Vocabulary of the claims, read off the record of the invocation.
MutatingOps ==
    {"Reset", "SetManagementKey", "SetMetadata", "SetPIN", "SetPUK",
     "GenerateKey", "SetCertificate"}

CallsOf(op) == {i \in 1..Len(calls) : calls[i].op = op}

\* The certificate query on the authentication slot succeeded.
CertFound ==
    \E i \in CallsOf("Certificate") :
        calls[i].slot = SlotAuthentication /\ calls[i].res = "ok"

CertNotFound ==
    \E i \in CallsOf("Certificate") : calls[i].res = "notfound"

Provisioned(d) == d.slots[SlotAuthentication].hasCert

ValidationErrs == {ErrRead, ErrChars, ErrNotEqual, ErrInvalidPIN}

\* The invocation has got as far as the device: it is about to open it,
\* has tried to, or is past that.
DeviceReached ==
    \/ pc \notin {"Run", "interactivePIN", "checkPIN", "failed"}
    \/ handle # "none"
    \/ calls # << >>
    \/ err = ErrSecurityKey

InRange(n) == MinPIN <= n /\ n <= MaxPIN

\* The secret was captured at the prompt: two reads without error, the
\* second equal to the first, the first a decimal number.
CapturedTwiceEqual ==
    /\ Len(reads) = 2
    /\ ~reads[1].err /\ ~reads[2].err
    /\ reads[1].bytes = reads[2].bytes
    /\ reads[1].bytes # << >>
    /\ \A i \in 1..Len(reads[1].bytes) : reads[1].bytes[i] \in DOMAIN DigitValue

\* C1: when the certificate query on the authentication slot succeeds and
\* ResetSecurityKey is false, the invocation has failed with the
\* already-set-up error, the query is its only device call, no key line
\* is printed and the device is as it was when the invocation started; this
\* holds in every invocation, the repeated ones included.
C1_OverwriteProtection ==
    (CertFound /\ ~cmd.ResetSecurityKey) =>
        /\ pc = "failed" /\ err = ErrAlreadySetUp
        /\ \A i \in 1..Len(calls) : calls[i].op \notin MutatingOps
        /\ Len(calls) = 1
        /\ output = << >>
        /\ device = startDevice

\* A third invocation refused like the second one, device untouched.
C1_Witness ==
    /\ run = 3 /\ prevErr = ErrAlreadySetUp
    /\ CertFound /\ ~cmd.ResetSecurityKey
    /\ pc = "failed" /\ err = ErrAlreadySetUp
    /\ Provisioned(device)

\* C2: no device call, the opening of the security key included, happens
\* before the secret has been obtained and has passed the range check; an
\* invocation that fails validation has made no device call.
C2_ValidationFirst ==
    /\ DeviceReached =>
        /\ InRange(cmd.PIN)
        /\ flagPIN # 0 \/ CapturedTwiceEqual
    /\ (pc = "failed" /\ err \in ValidationErrs) =>
        /\ handle = "none" /\ calls = << >> /\ device = startDevice
        /\ ~DeviceReached

\* An interactively captured secret has reached the device, and, in
\* another run, a mismatch of the two entries has ended the run before it.
C2_Witness ==
    /\ flagPIN = 0 /\ CapturedTwiceEqual
    /\ Len(calls) >= 2

C2_WitnessFailure ==
    pc = "failed" /\ err \in {ErrNotEqual, ErrInvalidPIN} /\ calls = << >>

\* The secret of the invocation, as a number, when it has one.
ValidationDone ==
    pc \notin {"Run", "interactivePIN", "checkPIN"} /\ err # ErrLogger

Accepted == ValidationDone /\ err \notin ValidationErrs

\* C3: a candidate secret is accepted (Run goes on to open the device) if
\* and only if it lies in [100000, 99999999] and, when captured at the
\* prompt, the two entries are equal.
C3_AcceptedIffInRange ==
    ValidationDone =>
        (Accepted <=>
            IF flagPIN # 0
            THEN 100000 <= flagPIN /\ flagPIN <= 99999999
            ELSE /\ CapturedTwiceEqual
                 /\ 100000 <= ParseUint(reads[1].bytes).val
                 /\ ParseUint(reads[1].bytes).val <= 99999999)

\* The smallest secret is accepted from the prompt, typed with a leading zero.
C3_Witness ==
    /\ Accepted /\ flagPIN = 0 /\ cmd.PIN = 100000
    /\ Len(reads[1].bytes) = 7

\* C4: Reset is called at most once in a run, only after the certificate
\* query succeeded with ResetSecurityKey set, and always then; when the
\* query reports not-found, or the flag is false, it is not called.  The
\* device leaves the provisioned state within an invocation only by a
\* successful Reset of that kind.
C4_ResetOnlyWhenAuthorized ==
    /\ Cardinality(CallsOf("Reset")) <= 1
    /\ CallsOf("Reset") # {} => (CertFound /\ cmd.ResetSecurityKey)
    /\ (CertFound /\ cmd.ResetSecurityKey /\ pc # "Reset") =>
            CallsOf("Reset") # {}
    /\ (CertNotFound \/ ~cmd.ResetSecurityKey) => CallsOf("Reset") = {}
    /\ (Provisioned(startDevice) /\ ~Provisioned(device)) =>
            /\ CertFound /\ cmd.ResetSecurityKey
            /\ \E i \in CallsOf("Reset") : calls[i].res = "ok"

\* A provisioned device has been reset on request.
C4_Witness ==
    /\ Provisioned(startDevice) /\ ~Provisioned(device)
    /\ \E i \in CallsOf("Reset") : calls[i].res = "ok"

\* The order of the device calls up to the first GenerateKey.
RotationOrder(withReset) ==
    << "Certificate" >> \o (IF withReset THEN << "Reset" >> ELSE << >>)
        \o << "SetManagementKey", "SetMetadata", "SetPIN", "SetPUK",
              "GenerateKey" >>

\* C5: the device calls of a run come in the order certificate query,
\* Reset (if any), SetManagementKey, SetMetadata, SetPIN, SetPUK, first
\* GenerateKey; a call is made only when every earlier one succeeded, and a
\* failed call is the last one of a run that has ended with an error.
C5_RotationOrdered ==
    LET order == RotationOrder(CallsOf("Reset") # {}) IN
    /\ \A i \in 1..Len(calls) :
          i <= Len(order) => calls[i].op = order[i]
    /\ \A i \in 1..Len(calls) :
          calls[i].res = "error" =>
              i = Len(calls) /\ pc = "failed" /\ err # ""

\* SetPIN has failed after a reset and two successful rotation calls.
C5_Witness ==
    /\ pc = "failed" /\ err = ErrSetPIN
    /\ Len(calls) = 5 /\ calls[2].op = "Reset"

\* The first GenerateKey has been reached after the four rotation calls.
C5_WitnessComplete ==
    /\ Len(calls) >= 6 /\ calls[6].op = "GenerateKey" /\ calls[6].res = "ok"

RotationErrs ==
    {ErrSetManagementKey, ErrStoreManagementKey, ErrSetPIN, ErrSetPUK}

SlotErrs ==
    {ErrGenerateKey, ErrParentKey, ErrSerial, ErrCreateCertificate,
     ErrParseCertificate, ErrSetCertificate, ErrSSHPublicKey}

\* C6: after an invocation that failed at a rotation step or at a step of
\* a slot, a fresh invocation with ResetSecurityKey set, a valid secret and
\* no failing call of its own does not end in failure (it reaches Done with
\* all selected slots configured).
C6_RecoveryWithResetFlag ==
    (/\ run > 1 /\ prevErr \in RotationErrs \cup SlotErrs
     /\ cmd.ResetSecurityKey /\ handle = "open" /\ ~faulted)
        => pc # "failed"

\* The table of the run, written out.
SelectedTable ==
    IF cmd.AllTouchPolicies
    THEN << [slot |-> "authentication", touchPolicy |-> "TouchPolicyCached",
             label |-> "cached"],
            [slot |-> "signature", touchPolicy |-> "TouchPolicyAlways",
             label |-> "always"],
            [slot |-> "card-authentication", touchPolicy |-> "TouchPolicyNever",
             label |-> "never"] >>
    ELSE << [slot |-> "authentication", touchPolicy |-> "TouchPolicyCached",
             label |-> "cached"] >>

\* Slot s holds the key this invocation generated under policy p, and the
\* certificate this invocation stored for it.
ConfiguredByThisRun(s, p) ==
    device.slots[s] =
        [hasKey |-> TRUE, keyGen |-> run, policy |-> p,
         hasCert |-> TRUE, certGen |-> run]

\* Position in the table of the slot a call is for (0 for a call that is not
\* for a slot of the table).
TableIndex(s) ==
    IF \E j \in 1..Len(SelectedTable) : SelectedTable[j].slot = s
    THEN CHOOSE j \in 1..Len(SelectedTable) : SelectedTable[j].slot = s
    ELSE 0

\* C7: when configuring entry idx of the table fails, no device call has
\* been made for a later entry, every earlier entry still holds the key and
\* the certificate of this invocation, and the management key, the
\* metadata, the PIN and the PUK are the rotated ones.
C7_PartialProgressKept ==
    (pc = "failed" /\ err \in SlotErrs) =>
        /\ \A i \in 1..Len(calls) :
              calls[i].op \in {"GenerateKey", "SetCertificate"} =>
                  TableIndex(calls[i].slot) \in 1..idx
        /\ \A j \in 1..(idx - 1) :
              ConfiguredByThisRun(SelectedTable[j].slot,
                                  SelectedTable[j].touchPolicy)
        /\ mk \in RandomKeys /\ device.mgmt = mk /\ device.metadata = {mk}
        /\ device.pin = FormatUint(cmd.PIN) /\ device.pin # DefaultPIN
        /\ device.puk = FormatUint(cmd.PIN) /\ device.puk # DefaultPUK

\* The third slot has failed; the first two are configured.
C7_Witness ==
    /\ pc = "failed" /\ err = ErrSetCertificate /\ idx = 3
    /\ ConfiguredByThisRun("signature", "TouchPolicyAlways")

\* Every entry of the table has its key, its certificate and its line.
AllConfigured ==
    /\ Len(output) = Len(SelectedTable)
    /\ \A j \in 1..Len(SelectedTable) :
          /\ ConfiguredByThisRun(SelectedTable[j].slot,
                                 SelectedTable[j].touchPolicy)
          /\ output[j].slot = SelectedTable[j].slot
          /\ output[j].key = device.slots[SelectedTable[j].slot].keyGen

\* C8: Run returns nil if and only if every slot of the selected table has
\* its key generated, its certificate stored and its SSH key printed; a
\* failed call of any kind, and a failed validation, gives an error.
C8_SuccessMeansComplete ==
    /\ pc = "done" => (err = "" /\ AllConfigured /\ ~faulted)
    /\ AllConfigured => pc = "done"
    /\ pc = "failed" => err # ""
    /\ (faulted \/ \E i \in 1..Len(calls) : calls[i].res = "error")
            => pc = "failed"
    /\ (pc \notin {"Run", "interactivePIN", "checkPIN"}
            /\ ~(InRange(cmd.PIN) /\ (flagPIN # 0 \/ CapturedTwiceEqual)))
            => pc = "failed"

\* A three-slot run has returned nil.
C8_Witness ==
    pc = "done" /\ cmd.AllTouchPolicies /\ Len(output) = 3 /\ AllConfigured

\* The slots of the calls op of this invocation, in call order.
SlotsOf(op) ==
    LET picked == SelectSeq(calls, LAMBDA c : c.op = op /\ c.res = "ok")
    IN  [i \in 1..Len(picked) |-> picked[i].slot]

IsPrefix(a, b) ==
    Len(a) <= Len(b) /\ \A i \in 1..Len(a) : a[i] = b[i]

TableSlots == [j \in 1..Len(SelectedTable) |-> SelectedTable[j].slot]

\* C9: the slots are generated, written and printed in table order, each
\* once and with the touch policy and the label of its entry: one entry
\* (authentication, cached) without AllTouchPolicies, the three entries
\* (authentication, cached), (signature, always), (card-authentication,
\* never) with it; a successful run has done all of them; no other slot is
\* generated or written.
C9_SlotSelectionAndOrder ==
    /\ IsPrefix(SlotsOf("GenerateKey"), TableSlots)
    /\ IsPrefix(SlotsOf("SetCertificate"), TableSlots)
    /\ Len(output) <= Len(SelectedTable)
    /\ \A j \in 1..Len(output) :
          /\ output[j].slot = SelectedTable[j].slot
          /\ output[j].label = SelectedTable[j].label
    /\ \A j \in 1..Len(SlotsOf("GenerateKey")) :
          /\ device.slots[SelectedTable[j].slot].policy
                = SelectedTable[j].touchPolicy
          /\ device.slots[SelectedTable[j].slot].keyGen = run
    /\ \A i \in 1..Len(calls) :
          calls[i].op \in {"GenerateKey", "SetCertificate"} =>
              TableIndex(calls[i].slot) # 0
    /\ \A s \in DeviceSlots :
          TableIndex(s) = 0 =>
              device.slots[s] =
                  IF \E i \in CallsOf("Reset") : calls[i].res = "ok"
                  THEN EmptySlot ELSE startDevice.slots[s]
    /\ pc = "done" =>
          /\ SlotsOf("GenerateKey") = TableSlots
          /\ SlotsOf("SetCertificate") = TableSlots
          /\ Len(output) = Len(SelectedTable)

\* A single-slot run has succeeded on a device whose signature slot held a
\* key of another tool: that slot is as it was.
C9_Witness ==
    /\ pc = "done" /\ ~cmd.AllTouchPolicies /\ Len(output) = 1
    /\ device.slots["signature"].hasKey

C9_WitnessAll ==
    /\ pc = "done" /\ cmd.AllTouchPolicies
    /\ output[3].label = "never" /\ output[2].label = "always"

\* C10: once Run has obtained the security key handle, the handle is closed
\* before Run returns, on success and on every failure.
C10_HandleClosedOnReturn ==
    (pc \in {"done", "failed"} /\ handle # "none") => handle = "closed"

\* The calls op of this invocation that succeeded.
Succeeded(op) == {i \in CallsOf(op) : calls[i].res = "ok"}

\* The secret of the operator as a number: the flag, or the first entry at
\* the prompt read as a decimal number.
OperatorSecret ==
    IF flagPIN # 0 THEN flagPIN ELSE ParseUint(reads[1].bytes).val

\* C11: SetPIN presents the factory-default PIN and SetPUK the
\* factory-default PUK; both install the same string, which reads as the
\* validated secret of the operator; once both have succeeded the PIN and
\* the PUK of the device are that one string.
C11_PINAndPUKShareSecret ==
    /\ \A i \in CallsOf("SetPIN") :
          /\ calls[i].args.old = DefaultPIN
          /\ ParseUint(calls[i].args.new) = [val |-> OperatorSecret, err |-> FALSE]
          /\ InRange(OperatorSecret)
    /\ \A j \in CallsOf("SetPUK") :
          /\ calls[j].args.old = DefaultPUK
          /\ \A i \in CallsOf("SetPIN") : calls[j].args.new = calls[i].args.new
          /\ Succeeded("SetPIN") # {}
    /\ (Succeeded("SetPIN") # {} /\ Succeeded("SetPUK") # {}) =>
          /\ device.pin = device.puk
          /\ \A i \in CallsOf("SetPIN") : device.pin = calls[i].args.new

\* Both have succeeded with a secret captured at the prompt.
C11_Witness ==
    /\ Succeeded("SetPIN") # {} /\ Succeeded("SetPUK") # {}
    /\ flagPIN = 0 /\ device.puk # DefaultPUK

\* The device accepts key for some privileged command.
Authorizes(d, key) ==
    \/ DevSetManagementKey(d, key, key).ok
    \/ DevSetMetadata(d, key, key).ok
    \/ \E sl \in DeviceSlots :
          \/ DevGenerateKey(d, key, sl, TouchPolicyNever, 0).ok
          \/ DevSetCertificate(d, key, sl, 0).ok

\* C12: SetManagementKey presents the default key and installs another one;
\* once it has succeeded the default key authorizes no privileged command,
\* the device's key is the one installed, the key SetMetadata stores is
\* that key, and every SetMetadata, GenerateKey and SetCertificate call of
\* the run presents that key.
C12_ManagementKeyRotated ==
    /\ \A i \in CallsOf("SetManagementKey") :
          /\ calls[i].args.key = DefaultManagementKey
          /\ calls[i].args.newKey \notin {DefaultManagementKey, ZeroKey}
    /\ \A i \in Succeeded("SetManagementKey") :
          /\ ~Authorizes(device, DefaultManagementKey)
          /\ Authorizes(device, calls[i].args.newKey)
          /\ device.mgmt = calls[i].args.newKey
          /\ \A j \in CallsOf("SetMetadata") \cup CallsOf("GenerateKey")
                        \cup CallsOf("SetCertificate") :
                j > i /\ calls[j].args.key = calls[i].args.newKey
          /\ \A j \in CallsOf("SetMetadata") :
                calls[j].args.newKey = calls[i].args.newKey
          /\ Succeeded("SetMetadata") # {} => device.metadata = {device.mgmt}
    /\ Succeeded("SetManagementKey") = {} =>
          CallsOf("SetMetadata") \cup CallsOf("GenerateKey")
              \cup CallsOf("SetCertificate") = {}

\* A second invocation has reset the device, rotated the key again and
\* stored a certificate under the new key.
C12_Witness ==
    /\ run = 2 /\ Succeeded("Reset") # {}
    /\ Succeeded("SetMetadata") # {} /\ Succeeded("SetCertificate") # {}
    /\ device.mgmt = RandomKey(2)

\* The secrets of d are the factory defaults and no slot holds a certificate.
FactoryDefaults(d) ==
    /\ d.mgmt = DefaultManagementKey
    /\ d.pin = DefaultPIN /\ d.puk = DefaultPUK
    /\ \A sl \in DeviceSlots : ~d.slots[sl].hasCert

\* C13: in a run with ResetSecurityKey on a provisioned device the rotation
\* starts only after Reset has succeeded, and from then until
\* SetManagementKey is issued the authentication slot holds no certificate
\* and the secrets of the device are the factory defaults.
C13_ResetThenProvision ==
    /\ (CertFound /\ cmd.ResetSecurityKey
            /\ (pc \in {"randRead", "SetManagementKey"}
                    \/ CallsOf("SetManagementKey") # {}))
          => Succeeded("Reset") # {}
    /\ (Succeeded("Reset") # {} /\ CallsOf("SetManagementKey") = {}) =>
          /\ ~Provisioned(device)
          /\ FactoryDefaults(device)
          /\ Provisioned(startDevice)

\* Reset has succeeded on a provisioned device whose secrets were rotated;
\* SetManagementKey is about to be issued.
C13_Witness ==
    /\ Succeeded("Reset") # {} /\ pc = "SetManagementKey"
    /\ Provisioned(startDevice) /\ ~FactoryDefaults(startDevice)
    /\ startDevice.pin # DefaultPIN

\* C14: a certificate query that fails otherwise than with not-found ends
\* setup with an error after that one call, without Reset; a failed Reset
\* ends setup with an error after the query and the Reset; in both cases no
\* rotation call, GenerateKey or SetCertificate is issued.
C14_GuardFailuresFatal ==
    /\ (\E i \in CallsOf("Certificate") : calls[i].res = "error") =>
          /\ pc = "failed" /\ err = ErrCertificate
          /\ Len(calls) = 1
    /\ (\E i \in CallsOf("Reset") : calls[i].res = "error") =>
          /\ pc = "failed" /\ err = ErrReset
          /\ Len(calls) = 2
    /\ (pc = "failed" /\ err \in {ErrCertificate, ErrReset}) =>
          \A i \in 1..Len(calls) :
              calls[i].op \notin MutatingOps \ {"Reset"}

\* The authorized Reset has failed.
C14_Witness ==
    /\ pc = "failed" /\ err = ErrReset
    /\ \E i \in CallsOf("Reset") : calls[i].res = "error"

\* The query has failed on a provisioned device with the flag set.
C14_WitnessQuery ==
    /\ pc = "failed" /\ err = ErrCertificate
    /\ Provisioned(device) /\ cmd.ResetSecurityKey

\* Number of calls op for slot sl in this invocation.
Attempts(op, sl) ==
    Cardinality({i \in CallsOf(op) : calls[i].slot = sl})

\* C15: within an invocation no device call is attempted twice (a call
\* being a command and, for GenerateKey and SetCertificate, a slot), a
\* failed call is the last call, and a run that reaches Done has attempted
\* the query, the four rotation calls and, for each selected slot,
\* GenerateKey and SetCertificate exactly once each.
C15_NoRetries ==
    /\ \A i \in 1..Len(calls) : \A j \in 1..Len(calls) :
          (calls[i].op = calls[j].op /\ calls[i].slot = calls[j].slot)
              => i = j
    /\ \A i \in 1..Len(calls) : calls[i].res = "error" => i = Len(calls)
    /\ pc = "done" =>
          /\ Attempts("Certificate", "authentication") = 1
          /\ \A op \in {"SetManagementKey", "SetMetadata", "SetPIN", "SetPUK"} :
                Attempts(op, "") = 1
          /\ \A j \in 1..Len(SelectedTable) :
                /\ Attempts("GenerateKey", SelectedTable[j].slot) = 1
                /\ Attempts("SetCertificate", SelectedTable[j].slot) = 1
          /\ Len(calls) =
                5 + 2 * Len(SelectedTable) + Cardinality(CallsOf("Reset"))

\* A three-slot run with a reset has reached Done: twelve calls.
C15_Witness ==
    pc = "done" /\ Len(calls) = 12 /\ CallsOf("Reset") # {}

\* The record of a complete run on a fresh (factory-default) device, for
\* the secret, the mode, the management key and the number of the current
\* invocation: its calls after the certificate query, its output lines and
\* the device it leaves.
FreshText == FormatUint(OperatorSecret)

FreshRotation ==
    << [op |-> "SetManagementKey", slot |-> "",
        args |-> Args(DefaultManagementKey, mk, << >>, << >>)],
       [op |-> "SetMetadata", slot |-> "",
        args |-> Args(mk, mk, << >>, << >>)],
       [op |-> "SetPIN", slot |-> "",
        args |-> Args(ZeroKey, ZeroKey, DefaultPIN, FreshText)],
       [op |-> "SetPUK", slot |-> "",
        args |-> Args(ZeroKey, ZeroKey, DefaultPUK, FreshText)] >>

FreshCalls ==
    [k \in 1..(4 + 2 * Len(SelectedTable)) |->
        IF k <= 4 THEN FreshRotation[k]
        ELSE [op |-> IF (k - 5) % 2 = 0 THEN "GenerateKey" ELSE "SetCertificate",
              slot |-> SelectedTable[((k - 5) \div 2) + 1].slot,
              args |-> Args(mk, ZeroKey, << >>, << >>)]]

FreshOutput ==
    [j \in 1..Len(SelectedTable) |->
        [label |-> SelectedTable[j].label, slot |-> SelectedTable[j].slot,
         key |-> run]]

FreshDevice ==
    [ mgmt |-> mk, metadata |-> {mk}, pin |-> FreshText, puk |-> FreshText,
      slots |-> [sl \in DeviceSlots |->
                    IF TableIndex(sl) = 0 THEN EmptySlot
                    ELSE [hasKey |-> TRUE, keyGen |-> run,
                          policy |-> SelectedTable[TableIndex(sl)].touchPolicy,
                          hasCert |-> TRUE, certGen |-> run]] ]

\* The calls of this invocation after the guard (the query and the Reset).
AfterGuard ==
    SelectSeq(calls, LAMBDA c : c.op \notin {"Certificate", "Reset"})

\* A run on a fresh device, and a run with ResetSecurityKey on a provisioned
\* device that is past its Reset.
FreshRun == startDevice = FactoryDevice /\ CertNotFound
OverwriteRun ==
    /\ CertFound /\ cmd.ResetSecurityKey
    /\ pc # "Reset" /\ err # ErrReset

\* The invocation goes the way a run on a fresh device goes: its calls
\* after the guard are the calls of FreshCalls in that order with those
\* arguments, all successful unless a call fails by itself, its lines are
\* the lines of FreshOutput, it fails only when a call fails by itself, and
\* at Done the calls, the lines and the device are the complete ones.
GoesAsFresh ==
    /\ Len(AfterGuard) <= Len(FreshCalls)
    /\ \A k \in 1..Len(AfterGuard) :
          /\ AfterGuard[k].op = FreshCalls[k].op
          /\ AfterGuard[k].slot = FreshCalls[k].slot
          /\ AfterGuard[k].args = FreshCalls[k].args
          /\ AfterGuard[k].res = "ok" \/ (k = Len(AfterGuard) /\ faulted)
    /\ Len(output) <= Len(FreshOutput)
    /\ \A j \in 1..Len(output) : output[j] = FreshOutput[j]
    /\ pc = "failed" => faulted
    /\ mk \in RandomKeys \/ AfterGuard = << >>
    /\ pc = "done" =>
          /\ Len(AfterGuard) = Len(FreshCalls)
          /\ output = FreshOutput
          /\ device = FreshDevice

\* C16: for the same secret and mode, a run with ResetSecurityKey on a
\* provisioned device goes, after its successful Reset, exactly as a run on
\* a fresh device goes: same calls, same output lines, same final device
\* (the random management key and the generated keys being those of the
\* invocation).
C16_OverwriteEqualsFresh ==
    /\ FreshRun => GoesAsFresh
    /\ OverwriteRun => (Succeeded("Reset") # {} /\ GoesAsFresh)

\* An overwrite run in three-slot mode has reached Done on a device that an
\* earlier single-slot run had provisioned with another secret.
C16_Witness ==
    /\ OverwriteRun /\ pc = "done" /\ cmd.AllTouchPolicies
    /\ startDevice.pin # FreshText /\ ~startDevice.slots["signature"].hasKey

C16_WitnessFresh ==
    FreshRun /\ pc = "done" /\ cmd.AllTouchPolicies

Terminal == pc \in {"done", "failed"}

\* How far the invocation is: the steps of Run and setup in program order,
\* then four steps for each entry of the table, then the terminal states.
Progress(p, i) ==
    CASE p = "Run" -> 1
      [] p = "interactivePIN" -> 2
      [] p = "checkPIN" -> 3
      [] p = "getSecurityKey" -> 4
      [] p = "Certificate" -> 5
      [] p = "Reset" -> 6
      [] p = "randRead" -> 7
      [] p = "SetManagementKey" -> 8
      [] p = "SetMetadata" -> 9
      [] p = "SetPIN" -> 10
      [] p = "SetPUK" -> 11
      [] p = "GenerateKey" -> 8 + 4 * i
      [] p = "createCertificate" -> 9 + 4 * i
      [] p = "SetCertificate" -> 10 + 4 * i
      [] p = "printKey" -> 11 + 4 * i
      [] OTHER -> 100

\* C17: every invocation reaches Done or Failed (each step of an invocation
\* takes it further, an invocation that is not in a terminal state can
\* take a step, and under LiveSpec a terminal state is reached again and
\* again); Done is the state without error and Failed the state with one,
\* set by the step that failed; once the invocation is in a terminal state
\* it makes no device call, prints nothing and changes nothing.
C17_Termination ==
    /\ []<>Terminal
    /\ [](~Terminal => ENABLED RunStep)
    /\ [][run' = run => Progress(pc', idx') > Progress(pc, idx)]_vars
    /\ [](pc = "done" => err = "")
    /\ [](pc = "failed" <=> err # "")
    /\ [][(pc' = "failed" /\ pc # "failed") => (err = "" /\ err' # "")]_vars
    /\ [][(Terminal /\ run' = run) =>
            UNCHANGED << pc, err, calls, output, device, handle >>]_vars

\* Both terminal states, in successive invocations.
C17_Witness ==
    /\ run = 2 /\ pc = "done" /\ prevErr \in SlotErrs

\* The slots whose key line this invocation has printed, and the slots in
\* which it has stored a certificate.
PrintedSlots == {output[j].slot : j \in 1..Len(output)}
StoredSlots == {calls[i].slot : i \in Succeeded("SetCertificate")}

\* C18: a key line is printed only for a slot whose SetCertificate has
\* succeeded, and a slot whose SetCertificate has succeeded has its key
\* line before anything else happens: outside the step between the two,
\* and in particular when the run has ended, the printed slots are the
\* slots with a stored certificate.
C18_PrintedMatchesStored ==
    /\ PrintedSlots \subseteq StoredSlots
    /\ pc # "printKey" => PrintedSlots = StoredSlots

\* C19: an accepted secret typed at the prompt has 6 to 8 digits, and the
\* PIN that SetPIN installs is the text that was typed and confirmed.
C19_InstalledPINIsTypedText ==
    /\ (Accepted /\ flagPIN = 0) => Len(reads[1].bytes) \in 6..8
    /\ \A i \in Succeeded("SetPIN") :
          flagPIN = 0 =>
              /\ calls[i].args.new = reads[1].bytes
              /\ device.pin = reads[1].bytes

\* C20: in a run without ResetSecurityKey every slot that held a key or a
\* certificate when the invocation started still holds that key and that
\* certificate.
C20_ExistingCredentialsKept ==
    ~cmd.ResetSecurityKey =>
        \A sl \in DeviceSlots :
            /\ startDevice.slots[sl].hasKey =>
                  /\ device.slots[sl].hasKey
                  /\ device.slots[sl].keyGen = startDevice.slots[sl].keyGen
                  /\ device.slots[sl].policy = startDevice.slots[sl].policy
            /\ startDevice.slots[sl].hasCert =>
                  /\ device.slots[sl].hasCert
                  /\ device.slots[sl].certGen = startDevice.slots[sl].certGen
====
